---- MODULE Spec2Model ----
(***************************************************************************)
(* The two Telegram scripts of the repository as one state machine.       *)
(*                                                                         *)
(*   src/debug/setup_telegram_auth.py   the auth setup script              *)
(*   src/debug/telegram/clinet.py       the channel scraper                *)
(*                                                                         *)
(* One behaviour is one run of one of the two processes; Init chooses the  *)
(* script, its command line and the remote side (session file, channel).   *)
(* Every call into the Telegram client library is a step whose outcome is  *)
(* chosen by the environment: it returns ("ok"), raises an Exception       *)
(* ("exc"), or the user interrupts the run while it waits ("int", a        *)
(* BaseException that `except Exception` does not catch).                  *)
(* client.disconnect() is taken to return normally.                        *)
(***************************************************************************)
EXTENDS Integers, Sequences, FiniteSets, TLC

VARIABLES
    script,         \* which entry point runs: "auth" or "scraper"
    argv,           \* sys.argv, argv[1] is the program name (Python's argv[0])
    session,        \* TRUE iff the session file on disk is already authorized
    chanCount,      \* number of messages the remote channel holds
    svcId,          \* id of the channel's message whose text is None (0: none)
    pc,             \* position of the process
    creds,          \* api_id, api_hash, phone of setup_telegram_auth
    clientState,    \* state of the TelegramClient connection
    ops,            \* client operations called so far, in call order
    failedAt,       \* the library call that raised an Exception ("none": none)
    interrupted,    \* TRUE iff the user interrupted the run
    printed,        \* the kinds of lines written to standard output
    exitStatus,     \* None while running, Some(status) once the process ended
    uncaught,       \* the exception that ended the process unhandled, or "none"
    entityKind,     \* type of the entity get_entity resolved, or "none"
    messages_data,  \* scrape_channel's local list
    pending,        \* what the try statement left to do after finally
    result,         \* the value scrape_channel's return statement evaluated
    messages,       \* the entry point's variable `messages`
    printIdx,       \* index of the next record the print loop visits
    printedRecs     \* the records the print loop wrote

vars == <<script, argv, session, chanCount, svcId, pc, creds, clientState, ops,
          failedAt, interrupted, printed, exitStatus, uncaught, entityKind,
          messages_data, pending, result, messages, printIdx, printedRecs>>

-----------------------------------------------------------------------------
(* Bounds of the model *)

MaxArgs == 3
MaxMsgs == 52
MaxSvcId == 2

(* Constants of the program *)

IterLimit == 50
TextCut == 100

-----------------------------------------------------------------------------
(* Values *)

None == <<>>
Some(x) == <<x>>

Min(a, b) == IF a <= b THEN a ELSE b

ArgTokens == {"-h", "--help", "12345", "abcdef123456", "+1234567890"}

RECURSIVE ArgsUpTo(_)
ArgsUpTo(n) ==
    IF n = 0 THEN {<<>>}
    ELSE LET shorter == ArgsUpTo(n - 1)
         IN  shorter \cup {Append(a, t) : a \in {s \in shorter : Len(s) = n - 1},
                                          t \in ArgTokens}

ProgName == "setup_telegram_auth.py"
TargetChannel == "dubaionline"

\* Python's sys.argv[i]
Arg(av, i) == av[i + 1]

Outcomes == {"ok", "exc", "int"}
EntityKinds == {"Channel", "User", "Chat"}

-----------------------------------------------------------------------------
(* The remote channel: ids 1..chanCount, the highest id is the most recent. *)
(* A text is modelled by its length, None for a message without text.       *)

TextLen(id) == (id * 40) % 160

RemoteMessage(id) ==
    [id    |-> id,
     date  |-> id,
     text  |-> IF id = svcId THEN None ELSE Some(TextLen(id)),
     views |-> IF id = svcId THEN None ELSE Some(id % 3)]

\* client.iter_messages(entity, limit): how many messages it yields, and
\* the k-th message it yields (most recent first).
IterCount(limit) == Min(chanCount, limit)
IterYield(k) == RemoteMessage(chanCount - k + 1)

-----------------------------------------------------------------------------
(* Initial states *)

envVars == <<script, argv, session, chanCount, svcId>>
authVars == <<creds>>
scrVars == <<entityKind, messages_data, pending, result, messages, printIdx,
             printedRecs>>

NoCreds == [api_id |-> "", api_hash |-> "", phone |-> ""]

Init ==
    /\ script \in {"auth", "scraper"}
    /\ session \in BOOLEAN
    /\ IF script = "auth"
       THEN /\ argv \in {<<ProgName>> \o a : a \in ArgsUpTo(MaxArgs)}
            /\ chanCount = 0
            /\ svcId = 0
            /\ pc = "a_main"
       ELSE /\ argv = <<"clinet.py">>
            /\ chanCount \in 0..MaxMsgs
            /\ svcId \in 0..MaxSvcId
            /\ pc = "s_create"
    /\ creds = NoCreds
    /\ clientState = "none"
    /\ ops = <<>>
    /\ failedAt = "none"
    /\ interrupted = FALSE
    /\ printed = {}
    /\ exitStatus = None
    /\ uncaught = "none"
    /\ entityKind = "none"
    /\ messages_data = <<>>
    /\ pending = "none"
    /\ result = <<>>
    /\ messages = <<>>
    /\ printIdx = 0
    /\ printedRecs = <<>>

-----------------------------------------------------------------------------
(* The client library *)

\* One step of client.start(phone=...): connect, then (unless the session is
\* already authorized) send the phone number, then sign in with the code.
StartNext(cs, authorized) ==
    CASE cs = "uninitialized" -> IF authorized THEN "authenticated"
                                 ELSE "awaiting_phone"
      [] cs = "awaiting_phone" -> "awaiting_code"
      [] cs = "awaiting_code"  -> "authenticated"
      [] OTHER                 -> cs

Called(op) == \E i \in 1..Len(ops) : ops[i] = op

-----------------------------------------------------------------------------
(* setup_telegram_auth.py *)

HelpFlags == {"-h", "--help"}

IsHelpShortOnly(av) == Len(av) > 1 /\ Arg(av, 1) = "-h"
\* len(sys.argv) > 1 and sys.argv[1] in ['-h', '--help']
IsHelp(av) == Len(av) > 1 /\ Arg(av, 1) \in HelpFlags

\* the command line arguments override the default credentials
ParseArgs(av) ==
    IF Len(av) >= 4
    THEN [api_id |-> Arg(av, 1), api_hash |-> Arg(av, 2), phone |-> Arg(av, 3)]
    ELSE IF Len(av) >= 2
    THEN [api_id |-> "", api_hash |-> "", phone |-> Arg(av, 1)]
    ELSE NoCreds

\* the entry point: the banner, then --help or asyncio.run(setup_telegram_auth())
AuthMain ==
    /\ pc = "a_main"
    /\ IF IsHelp(argv)
       THEN /\ printed' = printed \cup {"banner", "usage"}
            /\ exitStatus' = Some(0)
            /\ pc' = "exited"
       ELSE /\ printed' = printed \cup {"banner"}
            /\ exitStatus' = exitStatus
            /\ pc' = "a_setup"
    /\ UNCHANGED <<envVars, authVars, scrVars, clientState, ops, failedAt,
                   interrupted, uncaught>>

AuthParseArgs ==
    /\ pc = "a_setup"
    /\ creds' = ParseArgs(argv)
    /\ printed' = printed \cup {"setup"}
    /\ pc' = "a_create"
    /\ UNCHANGED <<envVars, scrVars, clientState, ops, failedAt, interrupted,
                   exitStatus, uncaught>>

AuthCreateClient ==
    /\ pc = "a_create"
    /\ \E o \in {"ok", "exc"} :
          IF o = "ok"
          THEN /\ clientState' = "uninitialized"
               /\ printed' = printed \cup {"starting"}
               /\ pc' = "a_start"
               /\ failedAt' = failedAt
          ELSE /\ failedAt' = "create"
               /\ pc' = "a_except"
               /\ UNCHANGED <<clientState, printed>>
    /\ UNCHANGED <<envVars, authVars, scrVars, ops, interrupted, exitStatus,
                   uncaught>>

AuthStart ==
    /\ pc = "a_start"
    /\ ops' = IF clientState = "uninitialized" THEN Append(ops, "start") ELSE ops
    /\ \E o \in Outcomes :
          CASE o = "ok" ->
                 /\ clientState' = StartNext(clientState, session)
                 /\ pc' = IF clientState' = "authenticated" THEN "a_get_me"
                          ELSE "a_start"
                 /\ UNCHANGED <<failedAt, interrupted>>
            [] o = "exc" ->
                 /\ failedAt' = "start"
                 /\ pc' = "a_except"
                 /\ UNCHANGED <<clientState, interrupted>>
            [] o = "int" ->
                 /\ interrupted' = TRUE
                 /\ pc' = "a_cancel"
                 /\ UNCHANGED <<clientState, failedAt>>
    /\ UNCHANGED <<envVars, authVars, scrVars, printed, exitStatus, uncaught>>

AuthGetMe ==
    /\ pc = "a_get_me"
    /\ ops' = Append(ops, "get_me")
    /\ \E o \in Outcomes :
          CASE o = "ok" ->
                 /\ printed' = printed \cup {"success"}
                 /\ pc' = "a_probe"
                 /\ UNCHANGED <<failedAt, interrupted>>
            [] o = "exc" ->
                 /\ failedAt' = "get_me"
                 /\ pc' = "a_except"
                 /\ UNCHANGED <<printed, interrupted>>
            [] o = "int" ->
                 /\ interrupted' = TRUE
                 /\ pc' = "a_cancel"
                 /\ UNCHANGED <<printed, failedAt>>
    /\ UNCHANGED <<envVars, authVars, scrVars, clientState, exitStatus,
                   uncaught>>

\* the inner try/except around the probe: a failed probe is a warning and the
\* run goes on to disconnect
AfterProbeErrorOuter == "a_except"
AfterProbeError == "a_disconnect"

AuthProbe ==
    /\ pc = "a_probe"
    /\ ops' = Append(ops, "get_entity")
    /\ \E o \in Outcomes :
          CASE o = "ok" ->
                 /\ printed' = printed \cup {"testing", "probe_ok"}
                 /\ pc' = "a_disconnect"
                 /\ UNCHANGED <<failedAt, interrupted>>
            [] o = "exc" ->
                 /\ failedAt' = "probe"
                 /\ printed' = printed \cup {"testing", "probe_warning"}
                 /\ pc' = AfterProbeError
                 /\ UNCHANGED <<interrupted>>
            [] o = "int" ->
                 /\ interrupted' = TRUE
                 /\ printed' = printed \cup {"testing"}
                 /\ pc' = "a_cancel"
                 /\ UNCHANGED <<failedAt>>
    /\ UNCHANGED <<envVars, authVars, scrVars, clientState, exitStatus,
                   uncaught>>

AuthDisconnect ==
    /\ pc = "a_disconnect"
    /\ ops' = Append(ops, "disconnect")
    /\ clientState' = "disconnected"
    /\ printed' = printed \cup {"complete"}
    /\ pc' = "a_return"
    /\ UNCHANGED <<envVars, authVars, scrVars, failedAt, interrupted,
                   exitStatus, uncaught>>

\* asyncio.run returns and the script ends
AuthReturn ==
    /\ pc = "a_return"
    /\ exitStatus' = Some(0)
    /\ pc' = "exited"
    /\ UNCHANGED <<envVars, authVars, scrVars, clientState, ops, failedAt,
                   interrupted, printed, uncaught>>

\* except Exception: the diagnostic, the hints, sys.exit(1)
AuthExceptExitZero == [printed |-> {"error", "troubleshooting"}, status |-> 0]
AuthExceptExit == [printed |-> {"error", "troubleshooting"}, status |-> 1]

AuthExcept ==
    /\ pc = "a_except"
    /\ printed' = printed \cup AuthExceptExit.printed
    /\ exitStatus' = Some(AuthExceptExit.status)
    /\ pc' = "exited"
    /\ UNCHANGED <<envVars, authVars, scrVars, clientState, ops, failedAt,
                   interrupted, uncaught>>

\* except KeyboardInterrupt around asyncio.run
AuthCancelExit == [printed |-> {"cancelled"}, status |-> 1]

AuthCancelled ==
    /\ pc = "a_cancel"
    /\ printed' = printed \cup AuthCancelExit.printed
    /\ exitStatus' = Some(AuthCancelExit.status)
    /\ pc' = "exited"
    /\ UNCHANGED <<envVars, authVars, scrVars, clientState, ops, failedAt,
                   interrupted, uncaught>>

AuthNext ==
    \/ AuthMain
    \/ AuthParseArgs
    \/ AuthCreateClient
    \/ AuthStart
    \/ AuthGetMe
    \/ AuthProbe
    \/ AuthDisconnect
    \/ AuthReturn
    \/ AuthExcept
    \/ AuthCancelled

-----------------------------------------------------------------------------
(* telegram/clinet.py *)

\* isinstance(entity, Channel)
IsChannelOrChat(kind) == kind \in {"Channel", "Chat"}
IsChannel(kind) == kind = "Channel"

\* the record built from one message
MessageInfo(message, channel_username) ==
    [id       |-> message.id,
     date     |-> message.date,
     text     |-> message.text,
     views    |-> message.views,
     post_url |-> <<"https://t.me", channel_username, message.id>>]

\* messages_data.append(message_info)
PrependInfo(data, info) == <<info>> \o data
AppendInfo(data, info) == Append(data, info)

\* except Exception as e: print, return []
ScrExceptKeepsData(data) == [printed |-> {"error"}, result |-> data]
ScrExceptSilent(data) == [printed |-> {}, result |-> <<>>]
ScrExceptOutcome(data) == [printed |-> {"error"}, result |-> <<>>]

\* where control goes when the except clause or a return statement of the try
\* body has run: the finally clause
AfterTryNoFinally == "s_return"
AfterTry == "s_finally"

\* msg['text'][:100]
TextSlice(text) == Min(text[1], TextCut)

\* module level: client = TelegramClient('my_session', api_id, api_hash)
ScrCreateClient ==
    /\ pc = "s_create"
    /\ \E o \in {"ok", "exc"} :
          IF o = "ok"
          THEN /\ clientState' = "uninitialized"
               /\ pc' = "s_main"
               /\ UNCHANGED <<failedAt, uncaught, exitStatus>>
          ELSE /\ failedAt' = "create"
               /\ uncaught' = "Exception"
               /\ exitStatus' = Some(1)
               /\ pc' = "exited"
               /\ UNCHANGED <<clientState>>
    /\ UNCHANGED <<envVars, authVars, scrVars, ops, interrupted, printed>>

\* the entry point calls asyncio.run(scrape_channel(target_channel_username))
ScrMain ==
    /\ pc = "s_main"
    /\ pc' = "s_start"
    /\ UNCHANGED <<envVars, authVars, scrVars, clientState, ops, failedAt,
                   interrupted, printed, exitStatus, uncaught>>

ScrStart ==
    /\ pc = "s_start"
    /\ ops' = IF clientState = "uninitialized" THEN Append(ops, "start") ELSE ops
    /\ \E o \in Outcomes :
          CASE o = "ok" ->
                 /\ clientState' = StartNext(clientState, session)
                 /\ IF clientState' = "authenticated"
                    THEN /\ printed' = printed \cup {"logged_in"}
                         /\ pc' = "s_get_entity"
                    ELSE /\ printed' = printed
                         /\ pc' = "s_start"
                 /\ UNCHANGED <<failedAt, interrupted, pending>>
            [] o = "exc" ->
                 /\ failedAt' = "start"
                 /\ pc' = "s_except"
                 /\ UNCHANGED <<clientState, interrupted, pending, printed>>
            [] o = "int" ->
                 /\ interrupted' = TRUE
                 /\ pending' = "raise"
                 /\ pc' = "s_finally"
                 /\ UNCHANGED <<clientState, failedAt, printed>>
    /\ UNCHANGED <<envVars, authVars, entityKind, messages_data, result,
                   messages, printIdx, printedRecs, exitStatus, uncaught>>

ScrGetEntity ==
    /\ pc = "s_get_entity"
    /\ ops' = Append(ops, "get_entity")
    /\ \E o \in Outcomes :
          CASE o = "ok" ->
                 /\ \E kind \in EntityKinds :
                       /\ entityKind' = kind
                       /\ IF IsChannel(kind)
                          THEN /\ printed' = printed \cup {"scraping"}
                               /\ messages_data' = <<>>
                               /\ pc' = "s_iter"
                               /\ UNCHANGED <<result, pending>>
                          ELSE /\ printed' = printed \cup {"not_channel"}
                               /\ result' = <<>>
                               /\ pending' = "return"
                               /\ pc' = AfterTry
                               /\ UNCHANGED <<messages_data>>
                 /\ UNCHANGED <<failedAt, interrupted>>
            [] o = "exc" ->
                 /\ failedAt' = "get_entity"
                 /\ pc' = "s_except"
                 /\ UNCHANGED <<entityKind, messages_data, result, pending,
                                printed, interrupted>>
            [] o = "int" ->
                 /\ interrupted' = TRUE
                 /\ pending' = "raise"
                 /\ pc' = "s_finally"
                 /\ UNCHANGED <<entityKind, messages_data, result, printed,
                                failedAt>>
    /\ UNCHANGED <<envVars, authVars, clientState, messages, printIdx,
                   printedRecs, exitStatus, uncaught>>

\* async for message in client.iter_messages(entity, limit=50): one turn of the
\* loop, or its end with the return statement
ScrIter ==
    /\ pc = "s_iter"
    /\ ops' = IF Called("iter_messages") THEN ops ELSE Append(ops, "iter_messages")
    /\ IF Len(messages_data) < IterCount(IterLimit)
       THEN \E o \in Outcomes :
              CASE o = "ok" ->
                     /\ messages_data' =
                          AppendInfo(messages_data,
                                     MessageInfo(IterYield(Len(messages_data) + 1),
                                                 TargetChannel))
                     /\ UNCHANGED <<pc, failedAt, interrupted, pending, result,
                                    printed>>
                [] o = "exc" ->
                     /\ failedAt' = "iter_messages"
                     /\ pc' = "s_except"
                     /\ UNCHANGED <<messages_data, interrupted, pending, result,
                                    printed>>
                [] o = "int" ->
                     /\ interrupted' = TRUE
                     /\ pending' = "raise"
                     /\ pc' = "s_finally"
                     /\ UNCHANGED <<messages_data, failedAt, result, printed>>
       ELSE /\ printed' = printed \cup {"scraped"}
            /\ result' = messages_data
            /\ pending' = "return"
            /\ pc' = AfterTry
            /\ UNCHANGED <<messages_data, failedAt, interrupted>>
    /\ UNCHANGED <<envVars, authVars, clientState, entityKind, messages,
                   printIdx, printedRecs, exitStatus, uncaught>>

ScrExcept ==
    /\ pc = "s_except"
    /\ printed' = printed \cup ScrExceptOutcome(messages_data).printed
    /\ result' = ScrExceptOutcome(messages_data).result
    /\ pending' = "return"
    /\ pc' = AfterTry
    /\ UNCHANGED <<envVars, authVars, clientState, ops, failedAt, interrupted,
                   exitStatus, uncaught, entityKind, messages_data, messages,
                   printIdx, printedRecs>>

\* finally: await client.disconnect()
ScrFinally ==
    /\ pc = "s_finally"
    /\ ops' = Append(ops, "disconnect")
    /\ clientState' = "disconnected"
    /\ pc' = "s_return"
    /\ UNCHANGED <<envVars, authVars, scrVars, failedAt, interrupted, printed,
                   exitStatus, uncaught>>

\* scrape_channel is left: its value is bound to `messages`, or the pending
\* KeyboardInterrupt leaves asyncio.run and ends the process
ScrReturn ==
    /\ pc = "s_return"
    /\ IF pending = "return"
       THEN /\ messages' = result
            /\ printIdx' = 1
            /\ pc' = "s_print"
            /\ UNCHANGED <<uncaught, exitStatus>>
       ELSE /\ uncaught' = "KeyboardInterrupt"
            /\ exitStatus' = Some(130)
            /\ pc' = "exited"
            /\ UNCHANGED <<messages, printIdx>>
    /\ UNCHANGED <<envVars, authVars, clientState, ops, failedAt, interrupted,
                   printed, entityKind, messages_data, pending, result,
                   printedRecs>>

\* for msg in messages: print(...); the end of the script
ScrPrint ==
    /\ pc = "s_print"
    /\ IF printIdx <= Len(messages)
       THEN LET msg == messages[printIdx]
            IN  IF msg.text = None
                THEN /\ uncaught' = "TypeError"
                     /\ exitStatus' = Some(1)
                     /\ pc' = "exited"
                     /\ UNCHANGED <<printedRecs, printIdx>>
                ELSE /\ printedRecs' =
                          Append(printedRecs,
                                 [id |-> msg.id, date |-> msg.date,
                                  text |-> TextSlice(msg.text),
                                  post_url |-> msg.post_url])
                     /\ printIdx' = printIdx + 1
                     /\ UNCHANGED <<uncaught, exitStatus, pc>>
       ELSE /\ exitStatus' = Some(0)
            /\ pc' = "exited"
            /\ UNCHANGED <<uncaught, printedRecs, printIdx>>
    /\ UNCHANGED <<envVars, authVars, clientState, ops, failedAt, interrupted,
                   printed, entityKind, messages_data, pending, result,
                   messages>>

ScraperNext ==
    \/ ScrCreateClient
    \/ ScrMain
    \/ ScrStart
    \/ ScrGetEntity
    \/ ScrIter
    \/ ScrExcept
    \/ ScrFinally
    \/ ScrReturn
    \/ ScrPrint

-----------------------------------------------------------------------------
Next == AuthNext \/ ScraperNext

Spec == Init /\ [][Next]_vars

-----------------------------------------------------------------------------
(* Properties *)

Exited == pc = "exited"
LastOp == IF ops = <<>> THEN "none" ELSE ops[Len(ops)]
CountOp(op) == Cardinality({i \in 1..Len(ops) : ops[i] = op})
\* scrape_channel was entered and has been left
ScrapeLeft == script = "scraper" /\ Called("start")
                 /\ pc \in {"s_return", "s_print", "exited"}

\* C1: every run of the auth setup script that created the client and began
\* the handshake has called client.disconnect() when the process ends, also
\* when start or get_me raised and when the user interrupted the run.
C1_AuthAlwaysDisconnects ==
    (script = "auth" /\ Exited /\ clientState # "none" /\ Called("start"))
        => Called("disconnect")

\* C2: on every path through scrape_channel, disconnect is called exactly
\* once, it is the last client operation of the call, and it is called only
\* when the outcome of the call (the value to return, or the interrupt to
\* re-raise) has been determined.
C2_ScraperDisconnectsOnceLast ==
    /\ ScrapeLeft => (LastOp = "disconnect" /\ CountOp("disconnect") = 1)
    /\ (script = "scraper" /\ Called("disconnect")) =>
           (pending # "none" /\ CountOp("disconnect") = 1 /\ LastOp = "disconnect")
    /\ (script = "scraper" /\ pc \in {"s_start", "s_get_entity", "s_iter",
                                       "s_except", "s_finally"})
           => ~Called("disconnect")

C2_Witness ==
    /\ ScrapeLeft
    /\ failedAt = "iter_messages"
    /\ Len(messages_data) >= 1
    /\ LastOp = "disconnect"

\* C3 (as stated): an Exception raised by client.start is printed and the
\* process exits with a non-zero status, in both Telegram scripts.
C3_StartFailureFatalEverywhere ==
    (Exited /\ failedAt = "start")
        => ("error" \in printed /\ exitStatus # Some(0))

\* C3 (amended): an Exception raised by client.start is always printed; the
\* auth setup script then exits with status 1, while the channel scraper
\* returns the empty list from scrape_channel and exits with status 0.
C3_StartFailureOutcome ==
    (Exited /\ failedAt = "start") =>
        /\ "error" \in printed
        /\ script = "auth" =>
              (exitStatus = Some(1) /\ "troubleshooting" \in printed)
        /\ script = "scraper" =>
              (exitStatus = Some(0) /\ messages = <<>> /\ uncaught = "none"
               /\ printedRecs = <<>>)

C3_Witness ==
    /\ Exited
    /\ script = "scraper"
    /\ failedAt = "start"
    /\ ~session
    /\ Called("disconnect")
    /\ exitStatus = Some(0)

\* C4: when the resolved entity is not a Channel, scrape_channel returns the
\* empty list, raises nothing, and never calls iter_messages.
C4_NonChannelEmpty ==
    (script = "scraper" /\ entityKind \in {"User", "Chat"}) =>
        /\ ~Called("iter_messages")
        /\ pending = "return"
        /\ result = <<>>
        /\ uncaught = "none"
        /\ pc \in {"s_print", "exited"} => messages = <<>>
        /\ Exited => exitStatus = Some(0)

C4_Witness ==
    /\ script = "scraper"
    /\ entityKind = "User"
    /\ pc = "s_print"
    /\ messages = <<>>
    /\ chanCount > 0

\* C5: an Exception raised by get_entity or during the iteration never
\* leaves scrape_channel; the call returns the empty list, whatever was
\* collected before.
C5_ErrorsDegradeToEmpty ==
    (script = "scraper" /\ failedAt \in {"get_entity", "iter_messages"}) =>
        /\ pending # "raise"
        /\ uncaught = "none"
        /\ pc \in {"s_finally", "s_return", "s_print", "exited"} =>
              (pending = "return" /\ result = <<>>)
        /\ pc \in {"s_print", "exited"} => messages = <<>>
        /\ Exited => exitStatus = Some(0)

C5_Witness ==
    /\ script = "scraper"
    /\ failedAt = "iter_messages"
    /\ Len(messages_data) >= 2
    /\ pc = "s_print"
    /\ messages = <<>>

\* C6: when client creation, start or get_me raises an Exception the auth
\* script prints the diagnostic with the troubleshooting hints and exits
\* with status 1; when the user interrupts it prints the cancellation
\* message instead and exits with status 1; neither run exits with 0.
C6_AuthFailureExitsOne ==
    (script = "auth" /\ Exited) =>
        /\ failedAt \in {"create", "start", "get_me"} =>
              /\ exitStatus = Some(1)
              /\ {"error", "troubleshooting"} \subseteq printed
              /\ "cancelled" \notin printed
        /\ interrupted =>
              /\ exitStatus = Some(1)
              /\ "cancelled" \in printed
              /\ "troubleshooting" \notin printed

C6_Witness ==
    /\ script = "auth"
    /\ Exited
    /\ failedAt = "start"
    /\ clientState = "awaiting_phone"
    /\ exitStatus = Some(1)
    /\ "troubleshooting" \in printed

\* C7: when the first argument is -h or --help the auth script prints usage
\* and exits 0, creates no client and performs no client operation, whatever
\* the further arguments.
C7_HelpTouchesNoClient ==
    (script = "auth" /\ Len(argv) >= 2 /\ argv[2] \in {"-h", "--help"}) =>
        /\ pc \in {"a_main", "exited"}
        /\ clientState = "none"
        /\ ops = <<>>
        /\ Exited => (exitStatus = Some(0) /\ "usage" \in printed)

C7_Witness ==
    /\ script = "auth"
    /\ Exited
    /\ Len(argv) = 4
    /\ argv[2] = "--help"
    /\ "usage" \in printed
    /\ exitStatus = Some(0)

\* C8: for a channel of M messages and no error, scrape_channel returns
\* min(M, 50) records, the i-th being the record of the i-th most recent
\* message, and no id occurs twice.
C8_ReturnsMostRecent ==
    (script = "scraper" /\ pc \in {"s_print", "exited"} /\ entityKind = "Channel"
       /\ failedAt = "none" /\ ~interrupted) =>
        /\ Len(messages) = (IF chanCount < IterLimit THEN chanCount ELSE IterLimit)
        /\ \A i \in 1..Len(messages) :
              /\ messages[i].id = chanCount - i + 1
              /\ messages[i].text = RemoteMessage(chanCount - i + 1).text
              /\ messages[i].views = RemoteMessage(chanCount - i + 1).views
              /\ messages[i].date = RemoteMessage(chanCount - i + 1).date
              /\ messages[i].post_url[3] = messages[i].id
        /\ \A i, j \in 1..Len(messages) :
              i < j => messages[i].id > messages[j].id

C8_Witness ==
    /\ script = "scraper"
    /\ pc = "s_print"
    /\ entityKind = "Channel"
    /\ failedAt = "none"
    /\ chanCount > IterLimit
    /\ Len(messages) = IterLimit

Rank(cs) ==
    CASE cs = "none"           -> 0
      [] cs = "uninitialized"  -> 1
      [] cs = "awaiting_phone" -> 2
      [] cs = "awaiting_code"  -> 3
      [] cs = "authenticated"  -> 4
      [] cs = "disconnected"   -> 5

\* C9: the auth run passes through uninitialized, awaiting phone, awaiting
\* code, authenticated, disconnected only in that order; the probe happens
\* only in the authenticated state; a failed probe leaves the run in the
\* authenticated state on its way to disconnect and status 0; no client
\* operation happens after disconnected.
C9_AuthStateOrder ==
    [][script = "auth" =>
         /\ Rank(clientState') >= Rank(clientState)
         /\ ops' # ops => clientState # "disconnected"
         /\ (ops' # ops /\ ops'[Len(ops')] = "get_entity") =>
               (clientState = "authenticated" /\ clientState' = "authenticated")
         /\ failedAt' = "probe" =>
               /\ pc' \in {"a_disconnect", "a_return", "exited"}
               /\ pc' = "a_disconnect" => clientState' = "authenticated"
               /\ pc' = "exited" =>
                     (exitStatus' = Some(0) /\ clientState' = "disconnected")
      ]_vars

C9_Witness ==
    /\ script = "auth"
    /\ Exited
    /\ ~session
    /\ failedAt = "probe"
    /\ clientState = "disconnected"
    /\ exitStatus = Some(0)

\* C10: for every list scrape_channel returns, the print loop of the entry
\* point prints every record and the process does not end with an unhandled
\* error, also when a record's text is None.
C10_PrintLoopCompletes ==
    (script = "scraper" /\ Exited /\ pending = "return") =>
        /\ uncaught = "none"
        /\ exitStatus = Some(0)
        /\ Len(printedRecs) = Len(messages)

====
